---------------------------- MODULE Spec2Model ----------------------------
(***************************************************************************)
(* A model of subitize.py, the subitizing experiment: the block and trial  *)
(* loops, the rejection-sampling placement of the circles, the event       *)
(* buffer of key presses, the response capture and the six result lists.   *)
(*                                                                         *)
(* Time is counted in ticks of one second, the unit of the durations of    *)
(* the script.  Time passes only where the script waits (core.wait and     *)
(* event.waitKeys); a key can be pressed only while time passes.           *)
(***************************************************************************)
EXTENDS Integers, Sequences, FiniteSets

(***************************************************************************)
(* Settings of the script (lines 76-86, 119-121).                          *)
(***************************************************************************)
\* The session model runs N_BLOCKS blocks of N_TRIALS trials (3 and 10 in
\* the script); DEFAULT_N_TRIALS is the script's own number of conditions.
N_BLOCKS == 2
N_TRIALS == 2
DEFAULT_N_TRIALS == 10

BLOCK_START_DURATION == 2
CIRCLE_RADIUS == 9
CIRCLE_DIAMETER == CIRCLE_RADIUS * 2
CIRCLE_DURATION == 1
FIX_DURATION == 1

WINDOW_X == 600
WINDOW_Y == 600
WINDOW_PADDING == 200

\* The event buffer of the model holds at most MaxBuf key presses.
MaxBuf == 2

VARIABLES
    pc,                   \* the statement the script is at
    env,                  \* the inputs of this run: keys, delays, random draws
    screen,               \* what the last win.flip() put on the screen
    now,                  \* the reading of timer (line 157), in ticks
    buffer,               \* psychopy's event buffer of key presses
    keys,                 \* the script's variable keys
    conditions,           \* the condition list (line 96)
    block_i, trial_i,     \* the loop variables (lines 169, 181)
    n_circles,            \* line 182
    valid_positions,      \* line 193
    circle_i,             \* line 194
    x, y,                 \* the last candidate drawn (lines 200-204)
    time_shown,           \* the clock reading when the circles were flipped in
    time_asked,           \* line 234
    block_n, trial_n, correct_response,
    participant_response, was_correct, rt_list,    \* lines 103-108
    report                \* the DataFrame and the figures printed from it

vars == <<pc, env, screen, now, buffer, keys, conditions, block_i, trial_i,
          n_circles, valid_positions, circle_i, x, y, time_shown, time_asked,
          block_n, trial_n, correct_response, participant_response,
          was_correct, rt_list, report>>

results == <<block_n, trial_n, correct_response, participant_response,
             was_correct, rt_list>>

(***************************************************************************)
(* Keys.                                                                   *)
(***************************************************************************)
DigitKeys == {"0", "1", "2", "3", "4", "5", "6", "7", "8", "9"}
OtherKeys == {"a"}
AllKeys == DigitKeys \cup OtherKeys

\* str.isnumeric() on a key name
IsNumeric(k) == k \in DigitKeys

\* int(k) for a numeric key name; int() of any other name raises ValueError,
\* which the model shows as -1
ToInt(k) ==
    CASE k = "0" -> 0 [] k = "1" -> 1 [] k = "2" -> 2 [] k = "3" -> 3
      [] k = "4" -> 4 [] k = "5" -> 5 [] k = "6" -> 6 [] k = "7" -> 7
      [] k = "8" -> 8 [] k = "9" -> 9
      [] OTHER -> -1

\* keyList of line 239
ResponseKeyList == {"1", "2", "3", "4", "5", "6", "7", "8", "9", "0"}

\* line 238 with only its first test: any buffered key is taken as the answer
NeedsWaitEmptyOnly(ks) == ks = << >>

\* the test of line 238: TRUE when the buffered keys do not give an answer
NeedsWait(ks) ==
    \/ ks = << >>
    \/ ~IsNumeric(ks[1].name)
    \/ ~(0 <= ToInt(ks[1].name) /\ ToInt(ks[1].name) <= 9)

\* int(keys[0]) of line 241
Response(ks) == ToInt(ks[1].name)

\* n_circles == response of line 248
WasCorrect(n, r) == n = r

\* line 240 with the operands exchanged
ResponseTimeSwapped(t, asked) == asked - t

\* timer.getTime() - time_asked of line 240
ResponseTime(t, asked) == t - asked

(***************************************************************************)
(* The placement of the circles (lines 193-216).                           *)
(***************************************************************************)
\* line 201 without the padding of the window
CoordHiNoPadding(w) == (w \div 2) - CIRCLE_DIAMETER - 1

\* the bounds of random.randint on lines 200-204
CoordLo(w) == (0 - (w \div 2)) + CIRCLE_DIAMETER + WINDOW_PADDING + 1
CoordHi(w) == (w \div 2) - CIRCLE_DIAMETER - WINDOW_PADDING - 1

XRange == CoordLo(WINDOW_X) .. CoordHi(WINDOW_X)
YRange == CoordLo(WINDOW_Y) .. CoordHi(WINDOW_Y)

\* line 211 with < in place of <=
OverlapsStrict(px, py, qx, qy) ==
    (px - qx) * (px - qx) + (py - qy) * (py - qy)
        < CIRCLE_DIAMETER * CIRCLE_DIAMETER

\* line 211 with >= in place of <=
OverlapsFlipped(px, py, qx, qy) ==
    (px - qx) * (px - qx) + (py - qy) * (py - qy)
        >= CIRCLE_DIAMETER * CIRCLE_DIAMETER

\* the test of line 211 on integer coordinates: sqrt(d2) <= D iff d2 <= D*D
Overlaps(px, py, qx, qy) ==
    (px - qx) * (px - qx) + (py - qy) * (py - qy)
        <= CIRCLE_DIAMETER * CIRCLE_DIAMETER

\* the for loop of lines 209-213
IsValid(cx, cy, positions) ==
    \A i \in 1 .. Len(positions) :
        ~Overlaps(cx, cy, positions[i][1], positions[i][2])

(***************************************************************************)
(* random.shuffle(conditions), line 180: any permutation of the list.      *)
(***************************************************************************)
IndexPermutations(n) ==
    {p \in [1 .. n -> 1 .. n] : \A i, j \in 1 .. n : p[i] = p[j] => i = j}

\* a shuffle that draws every place from the whole list, with repeats
ShuffleWithRepeats(s) ==
    [1 .. Len(s) -> {s[i] : i \in 1 .. Len(s)}]

Shuffle(s) ==
    {[i \in 1 .. Len(s) |-> s[p[i]]] : p \in IndexPermutations(Len(s))}

\* line 96
InitialConditions(n) == [i \in 1 .. n |-> i]

(***************************************************************************)
(* The results table and the figures printed from it (lines 264-301).  A   *)
(* mean is kept as the pair <<sum, count>>.                                *)
(***************************************************************************)
\* the smallest of a set of integers
MinOf(S) == CHOOSE m \in S : \A n \in S : m <= n

\* zip(...) and pd.DataFrame(...), lines 265-271: one row for every place
\* that all six lists have
ResultRows ==
    LET n == MinOf({Len(block_n), Len(trial_n), Len(correct_response),
                    Len(participant_response), Len(was_correct),
                    Len(rt_list)})
    IN  [i \in 1 .. n |->
            [block |-> block_n[i],
             trial |-> trial_n[i],
             n_objects_actual |-> correct_response[i],
             n_objects_guessed |-> participant_response[i],
             correct |-> was_correct[i],
             rt |-> rt_list[i]]]

\* the integers of a set in rising order, the order of the keys of a groupby
RECURSIVE SortSet(_)
SortSet(S) ==
    IF S = {} THEN << >>
    ELSE <<MinOf(S)>> \o SortSet(S \ {MinOf(S)})

\* the sum of the values at the places I of the column vs
RECURSIVE SumOver(_, _)
SumOver(vs, I) ==
    IF I = {} THEN 0
    ELSE LET i == CHOOSE j \in I : TRUE
         IN  vs[i] + SumOver(vs, I \ {i})

\* a mean over all the rows of the table, whatever their key
GroupMeanOverAll(ks, vs) ==
    LET sorted == SortSet({ks[i] : i \in 1 .. Len(ks)})
    IN  [j \in 1 .. Len(sorted) |->
            [key |-> sorted[j],
             mean |-> <<SumOver(vs, {i \in 1 .. Len(ks) : ks[i] = sorted[j]}),
                        Len(ks)>>]]

\* results.groupby(key)[value].agg("mean").items(), for the key column ks and
\* the value column vs: the keys in rising order, each with its mean
GroupMean(ks, vs) ==
    LET sorted == SortSet({ks[i] : i \in 1 .. Len(ks)})
    IN  [j \in 1 .. Len(sorted) |->
            LET I == {i \in 1 .. Len(ks) : ks[i] = sorted[j]}
            IN  [key |-> sorted[j],
                 mean |-> <<SumOver(vs, I), Cardinality(I)>>]]

\* results[value].agg('mean')
Mean(vs) == <<SumOver(vs, 1 .. Len(vs)), Len(vs)>>

\* the column named c of the table
Column(rows, c) == [i \in 1 .. Len(rows) |-> rows[i][c]]

\* the column correct as numbers: True is 1 and False is 0
CorrectColumn(rows) ==
    [i \in 1 .. Len(rows) |-> IF rows[i].correct THEN 1 ELSE 0]

NoReport ==
    [made |-> FALSE, rows |-> << >>,
     block_accuracy |-> << >>, circles_accuracy |-> << >>,
     overall_accuracy |-> <<0, 0>>,
     block_rt |-> << >>, circles_rt |-> << >>, overall_rt |-> <<0, 0>>]

\* lines 264-301
MakeReport ==
    LET rows == ResultRows
    IN  [made |-> TRUE,
         rows |-> rows,
         block_accuracy |->
             GroupMean(Column(rows, "block"), CorrectColumn(rows)),
         circles_accuracy |->
             GroupMean(Column(rows, "n_objects_actual"), CorrectColumn(rows)),
         overall_accuracy |-> Mean(CorrectColumn(rows)),
         block_rt |-> GroupMean(Column(rows, "block"), Column(rows, "rt")),
         circles_rt |->
             GroupMean(Column(rows, "n_objects_actual"), Column(rows, "rt")),
         overall_rt |-> Mean(Column(rows, "rt"))]

(***************************************************************************)
(* The inputs of a run.                                                    *)
(***************************************************************************)
\* The session: a participant who uses two keys and presses without delay,
\* and a random source that draws from three columns of one row.
SessionEnv ==
    [keys |-> {"1", "a"},
     maxWait |-> 0,
     xs |-> {CoordLo(WINDOW_X), 0, CoordHi(WINDOW_X)},
     ys |-> {0}]

\* a key press as the event buffer holds it, with the place it was made at
KeyEvent(k) ==
    [name |-> k, screen |-> screen, block |-> block_i, trial |-> trial_i]

(***************************************************************************)
(* The session.                                                            *)
(***************************************************************************)
Init ==
    /\ pc = "instructions"
    /\ env = SessionEnv
    /\ screen = "instructions"
    /\ now = 0
    /\ buffer = << >>
    /\ keys = << >>
    /\ conditions = InitialConditions(N_TRIALS)
    /\ block_i = 0
    /\ trial_i = 0
    /\ n_circles = 0
    /\ valid_positions = << >>
    /\ circle_i = 0
    /\ x = 0
    /\ y = 0
    /\ time_shown = 0
    /\ time_asked = 0
    /\ block_n = << >>
    /\ trial_n = << >>
    /\ correct_response = << >>
    /\ participant_response = << >>
    /\ was_correct = << >>
    /\ rt_list = << >>
    /\ report = NoReport

\* the statements at which the script waits
Waiting == {"instructions", "block_wait", "fix_wait", "stim_wait",
            "wait_response", "end_wait"}

\* the statements at which the script waits for a key, with no timeout
Blocking == {"instructions", "wait_response", "end_wait"}

\* The participant presses a key: psychopy appends it to the event buffer.
\* Where the script waits for a key with no timeout, the participant may let
\* up to env.maxWait seconds pass before the press.  While the script waits
\* for an answer, the bound of the buffer keeps room for a key of keyList.
KeyPress ==
    /\ pc \in Waiting
    /\ Len(buffer) < MaxBuf
    /\ \E k \in env.keys :
          /\ (pc = "wait_response" /\ k \notin ResponseKeyList) =>
                 Len(buffer) + 1 < MaxBuf
          /\ buffer' = Append(buffer, KeyEvent(k))
    /\ \E d \in 0 .. env.maxWait :
          now' = IF pc \in Blocking THEN now + d ELSE now
    /\ UNCHANGED <<pc, env, screen, keys, conditions, block_i, trial_i,
                   n_circles, valid_positions, circle_i, x, y, time_shown,
                   time_asked, results, report>>

\* event.waitKeys() of line 163 returns the keys pressed at the instructions.
StartExperiment ==
    /\ pc = "instructions"
    /\ buffer # << >>
    /\ keys' = buffer
    /\ buffer' = << >>
    /\ block_i' = 1
    /\ pc' = "block"
    /\ UNCHANGED <<env, screen, now, conditions, trial_i, n_circles,
                   valid_positions, circle_i, x, y, time_shown, time_asked,
                   results, report>>

\* lines 171-174: the block start message
ShowBlockStart ==
    /\ pc = "block"
    /\ screen' = "block_start"
    /\ pc' = "block_wait"
    /\ UNCHANGED <<env, now, buffer, keys, conditions, block_i, trial_i,
                   n_circles, valid_positions, circle_i, x, y, time_shown,
                   time_asked, results, report>>

\* lines 175-181: the wait ends, the conditions are shuffled, the trials start
StartTrials ==
    /\ pc = "block_wait"
    /\ now' = now + BLOCK_START_DURATION
    /\ conditions' \in Shuffle(conditions)
    /\ trial_i' = 0
    /\ pc' = "trial"
    /\ UNCHANGED <<env, screen, buffer, keys, block_i, n_circles,
                   valid_positions, circle_i, x, y, time_shown, time_asked,
                   results, report>>

\* lines 182-189: the fixation cross
ShowFixation ==
    /\ pc = "trial"
    /\ n_circles' = conditions[trial_i + 1]
    /\ screen' = "fixation"
    /\ pc' = "fix_wait"
    /\ UNCHANGED <<env, now, buffer, keys, conditions, block_i, trial_i,
                   valid_positions, circle_i, x, y, time_shown, time_asked,
                   results, report>>

\* lines 190-194: the fixation ends and the placement starts
StartPlacement ==
    /\ pc = "fix_wait"
    /\ now' = now + FIX_DURATION
    /\ valid_positions' = << >>
    /\ circle_i' = 0
    /\ pc' = IF n_circles > 0 THEN "placing" ELSE "placed"
    /\ UNCHANGED <<env, screen, buffer, keys, conditions, block_i, trial_i,
                   n_circles, x, y, time_shown, time_asked, results, report>>

\* lines 197-216 storing the candidate whether or not it is valid
TryPositionStoresAny ==
    /\ pc = "placing"
    /\ \E cx \in env.xs, cy \in env.ys :
          /\ x' = cx
          /\ y' = cy
          /\ valid_positions' = Append(valid_positions, <<cx, cy>>)
          /\ IF circle_i + 1 < n_circles
                THEN circle_i' = circle_i + 1 /\ pc' = "placing"
                ELSE circle_i' = circle_i /\ pc' = "placed"
    /\ UNCHANGED <<env, screen, now, buffer, keys, conditions, block_i,
                   trial_i, n_circles, time_shown, time_asked, results, report>>

\* lines 197-216: one candidate is drawn; a valid one is stored
TryPosition ==
    /\ pc = "placing"
    /\ \E cx \in env.xs, cy \in env.ys :
          /\ x' = cx
          /\ y' = cy
          /\ IF IsValid(cx, cy, valid_positions)
                THEN /\ valid_positions' = Append(valid_positions, <<cx, cy>>)
                     /\ IF circle_i + 1 < n_circles
                           THEN circle_i' = circle_i + 1 /\ pc' = "placing"
                           ELSE circle_i' = circle_i /\ pc' = "placed"
                ELSE UNCHANGED <<valid_positions, circle_i, pc>>
    /\ UNCHANGED <<env, screen, now, buffer, keys, conditions, block_i,
                   trial_i, n_circles, time_shown, time_asked, results, report>>

\* lines 224-227 without event.clearEvents()
ShowStimulusNoClear ==
    /\ pc = "placed"
    /\ screen' = "stimulus"
    /\ time_shown' = now
    /\ pc' = "stim_wait"
    /\ UNCHANGED <<env, now, buffer, keys, conditions, block_i, trial_i,
                   n_circles, valid_positions, circle_i, x, y, time_asked,
                   results, report>>

\* lines 224-227: the event buffer is cleared and the circles are shown
ShowStimulus ==
    /\ pc = "placed"
    /\ buffer' = << >>
    /\ screen' = "stimulus"
    /\ time_shown' = now
    /\ pc' = "stim_wait"
    /\ UNCHANGED <<env, now, keys, conditions, block_i, trial_i, n_circles,
                   valid_positions, circle_i, x, y, time_asked, results, report>>

\* lines 228-234: core.wait(CIRCLE_DURATION), then the question is shown
ShowPrompt ==
    /\ pc = "stim_wait"
    /\ now' = now + CIRCLE_DURATION
    /\ screen' = "prompt"
    /\ time_asked' = now'
    /\ pc' = "prompt"
    /\ UNCHANGED <<env, buffer, keys, conditions, block_i, trial_i, n_circles,
                   valid_positions, circle_i, x, y, time_shown, results, report>>

\* lines 237-239 giving the trial up when no answer is buffered
GetKeysGiveUp ==
    /\ pc = "prompt"
    /\ buffer' = << >>
    /\ IF NeedsWait(buffer)
          THEN keys' = << >> /\ pc' = "saved"
          ELSE keys' = buffer /\ pc' = "got_response"
    /\ UNCHANGED <<env, screen, now, conditions, block_i, trial_i, n_circles,
                   valid_positions, circle_i, x, y, time_shown, time_asked,
                   results, report>>

\* lines 237-239 looking for a digit among all the buffered keys
GetKeysFirstDigit ==
    /\ pc = "prompt"
    /\ buffer' = << >>
    /\ IF \E i \in 1 .. Len(buffer) : buffer[i].name \in ResponseKeyList
          THEN /\ keys' = SelectSeq(buffer,
                                    LAMBDA e : e.name \in ResponseKeyList)
               /\ pc' = "got_response"
          ELSE keys' = << >> /\ pc' = "wait_response"
    /\ UNCHANGED <<env, screen, now, conditions, block_i, trial_i, n_circles,
                   valid_positions, circle_i, x, y, time_shown, time_asked,
                   results, report>>

\* lines 237-239: the buffered keys are read; without an answer among them
\* event.waitKeys clears the buffer and starts to wait
GetKeys ==
    /\ pc = "prompt"
    /\ buffer' = << >>
    /\ IF NeedsWait(buffer)
          THEN keys' = << >> /\ pc' = "wait_response"
          ELSE keys' = buffer /\ pc' = "got_response"
    /\ UNCHANGED <<env, screen, now, conditions, block_i, trial_i, n_circles,
                   valid_positions, circle_i, x, y, time_shown, time_asked,
                   results, report>>

\* line 239 without keyList: event.waitKeys returns on any key
WaitKeysReturnAnyKey ==
    /\ pc = "wait_response"
    /\ buffer # << >>
    /\ keys' = buffer
    /\ buffer' = << >>
    /\ pc' = "got_response"
    /\ UNCHANGED <<env, screen, now, conditions, block_i, trial_i, n_circles,
                   valid_positions, circle_i, x, y, time_shown, time_asked,
                   results, report>>

\* line 239 with a keyList that holds no key of the keyboard
WaitKeysReturnNoKeyList ==
    /\ pc = "wait_response"
    /\ \E i \in 1 .. Len(buffer) : buffer[i].name \in {}
    /\ keys' = SelectSeq(buffer, LAMBDA e : e.name \in {})
    /\ buffer' = SelectSeq(buffer, LAMBDA e : e.name \notin {})
    /\ pc' = "got_response"
    /\ UNCHANGED <<env, screen, now, conditions, block_i, trial_i, n_circles,
                   valid_positions, circle_i, x, y, time_shown, time_asked,
                   results, report>>

\* line 239: event.waitKeys returns the keys of keyList found in the buffer;
\* the other keys stay in the buffer
WaitKeysReturn ==
    /\ pc = "wait_response"
    /\ \E i \in 1 .. Len(buffer) : buffer[i].name \in ResponseKeyList
    /\ keys' = SelectSeq(buffer, LAMBDA e : e.name \in ResponseKeyList)
    /\ buffer' = SelectSeq(buffer, LAMBDA e : e.name \notin ResponseKeyList)
    /\ pc' = "got_response"
    /\ UNCHANGED <<env, screen, now, conditions, block_i, trial_i, n_circles,
                   valid_positions, circle_i, x, y, time_shown, time_asked,
                   results, report>>

\* lines 240-249 storing the block number counted from 0
SaveTrialZeroBasedBlock ==
    /\ pc = "got_response"
    /\ block_n' = Append(block_n, block_i - 1)
    /\ trial_n' = Append(trial_n, trial_i)
    /\ correct_response' = Append(correct_response, n_circles)
    /\ participant_response' = Append(participant_response, Response(keys))
    /\ was_correct' = Append(was_correct, WasCorrect(n_circles, Response(keys)))
    /\ rt_list' = Append(rt_list, ResponseTime(now, time_asked))
    /\ pc' = "saved"
    /\ UNCHANGED <<env, screen, now, buffer, keys, conditions, block_i,
                   trial_i, n_circles, valid_positions, circle_i, x, y,
                   time_shown, time_asked, report>>

\* lines 240-249 without rt_list.append(rt)
SaveTrialWithoutRt ==
    /\ pc = "got_response"
    /\ block_n' = Append(block_n, block_i)
    /\ trial_n' = Append(trial_n, trial_i)
    /\ correct_response' = Append(correct_response, n_circles)
    /\ participant_response' = Append(participant_response, Response(keys))
    /\ was_correct' = Append(was_correct, WasCorrect(n_circles, Response(keys)))
    /\ pc' = "saved"
    /\ UNCHANGED <<env, screen, now, buffer, keys, conditions, block_i,
                   trial_i, n_circles, valid_positions, circle_i, x, y,
                   time_shown, time_asked, rt_list, report>>

\* lines 240-249: the trial is stored
SaveTrial ==
    /\ pc = "got_response"
    /\ block_n' = Append(block_n, block_i)
    /\ trial_n' = Append(trial_n, trial_i)
    /\ correct_response' = Append(correct_response, n_circles)
    /\ participant_response' = Append(participant_response, Response(keys))
    /\ was_correct' = Append(was_correct, WasCorrect(n_circles, Response(keys)))
    /\ rt_list' = Append(rt_list, ResponseTime(now, time_asked))
    /\ pc' = "saved"
    /\ UNCHANGED <<env, screen, now, buffer, keys, conditions, block_i,
                   trial_i, n_circles, valid_positions, circle_i, x, y,
                   time_shown, time_asked, report>>

\* the loop headers of lines 181 and 169 with range(N_BLOCKS - 1)
NextIterationOneBlockShort ==
    /\ pc = "saved"
    /\ IF trial_i + 1 < N_TRIALS
          THEN trial_i' = trial_i + 1 /\ block_i' = block_i /\ pc' = "trial"
          ELSE /\ trial_i' = trial_i
               /\ IF block_i + 1 < N_BLOCKS
                     THEN block_i' = block_i + 1 /\ pc' = "block"
                     ELSE block_i' = block_i /\ pc' = "end"
    /\ UNCHANGED <<env, screen, now, buffer, keys, conditions, n_circles,
                   valid_positions, circle_i, x, y, time_shown, time_asked,
                   results, report>>

\* the loop headers of lines 181 and 169: the next trial, block, or the end
NextIteration ==
    /\ pc = "saved"
    /\ IF trial_i + 1 < N_TRIALS
          THEN trial_i' = trial_i + 1 /\ block_i' = block_i /\ pc' = "trial"
          ELSE /\ trial_i' = trial_i
               /\ IF block_i < N_BLOCKS
                     THEN block_i' = block_i + 1 /\ pc' = "block"
                     ELSE block_i' = block_i /\ pc' = "end"
    /\ UNCHANGED <<env, screen, now, buffer, keys, conditions, n_circles,
                   valid_positions, circle_i, x, y, time_shown, time_asked,
                   results, report>>

\* lines 255-259: the end message; event.waitKeys clears the buffer and waits
ShowEnd ==
    /\ pc = "end"
    /\ screen' = "end"
    /\ buffer' = << >>
    /\ pc' = "end_wait"
    /\ UNCHANGED <<env, now, keys, conditions, block_i, trial_i, n_circles,
                   valid_positions, circle_i, x, y, time_shown, time_asked,
                   results, report>>

\* lines 259-262: a key ends the experiment and the window is closed
EndExperiment ==
    /\ pc = "end_wait"
    /\ buffer # << >>
    /\ keys' = buffer
    /\ buffer' = << >>
    /\ screen' = "closed"
    /\ pc' = "done"
    /\ UNCHANGED <<env, now, conditions, block_i, trial_i, n_circles,
                   valid_positions, circle_i, x, y, time_shown, time_asked,
                   results, report>>

\* lines 264-305: the results are put in a table, summed up, printed, saved
Report ==
    /\ pc = "done"
    /\ report' = MakeReport
    /\ pc' = "reported"
    /\ UNCHANGED <<env, screen, now, buffer, keys, conditions, block_i,
                   trial_i, n_circles, valid_positions, circle_i, x, y,
                   time_shown, time_asked, results>>

Next ==
    \/ KeyPress
    \/ StartExperiment
    \/ ShowBlockStart
    \/ StartTrials
    \/ ShowFixation
    \/ StartPlacement
    \/ TryPosition
    \/ ShowStimulus
    \/ ShowPrompt
    \/ GetKeys
    \/ WaitKeysReturn
    \/ SaveTrial
    \/ NextIteration
    \/ ShowEnd
    \/ EndExperiment
    \/ Report

Spec == Init /\ [][Next]_vars

(***************************************************************************)
(* The response capture of one trial (lines 224-249), with the script's    *)
(* own ten conditions, every digit key, and a participant who may take     *)
(* time to answer.  It starts where the placement loop of the first trial   *)
(* has finished, for any condition the shuffle may have put first.         *)
(***************************************************************************)
ResponseEnv ==
    [keys |-> AllKeys,
     maxWait |-> 1,
     xs |-> {CoordLo(WINDOW_X)},
     ys |-> {0}]

\* a shuffled condition list of the script with n first
ConditionsFrom(n) ==
    [i \in 1 .. DEFAULT_N_TRIALS |-> ((n + i - 2) % DEFAULT_N_TRIALS) + 1]

\* n positions the placement loop can have found: rows of five, the circles
\* one more than a diameter apart
Layout(n) ==
    [i \in 1 .. n |->
        <<CoordLo(WINDOW_X) + (CIRCLE_DIAMETER + 1) * ((i - 1) % 5),
          (CIRCLE_DIAMETER + 1) * ((i - 1) \div 5)>>]

InitResponse ==
    /\ pc = "placed"
    /\ env = ResponseEnv
    /\ screen = "fixation"
    /\ now = BLOCK_START_DURATION + FIX_DURATION
    /\ \E k \in env.keys :
          /\ keys = <<[name |-> k, screen |-> "instructions",
                       block |-> 0, trial |-> 0]>>
          /\ buffer \in {<< >>, <<[name |-> k, screen |-> "fixation",
                                   block |-> 1, trial |-> 0]>>}
    /\ n_circles \in 1 .. DEFAULT_N_TRIALS
    /\ conditions = ConditionsFrom(n_circles)
    /\ block_i = 1
    /\ trial_i = 0
    /\ valid_positions = Layout(n_circles)
    /\ circle_i = n_circles - 1
    /\ x = valid_positions[n_circles][1]
    /\ y = valid_positions[n_circles][2]
    /\ time_shown = 0
    /\ time_asked = 0
    /\ block_n = << >>
    /\ trial_n = << >>
    /\ correct_response = << >>
    /\ participant_response = << >>
    /\ was_correct = << >>
    /\ rt_list = << >>
    /\ report = NoReport

NextResponse ==
    \/ KeyPress
    \/ ShowStimulus
    \/ ShowPrompt
    \/ GetKeys
    \/ WaitKeysReturn
    \/ SaveTrial

SpecResponse == InitResponse /\ [][NextResponse]_vars

(***************************************************************************)
(* The placement loop of one trial (lines 193-216), with the window of the *)
(* script.  The random source draws either from the whole range of         *)
(* random.randint (one circle), or from a grid that holds the ends of the  *)
(* range and points a diameter, and one more than a diameter, apart.       *)
(***************************************************************************)
\* the largest number of circles placed on the grid
MaxCircles == 3

FullRangeEnv ==
    [keys |-> {"1"}, maxWait |-> 0, xs |-> XRange, ys |-> YRange]

GridEnv ==
    [keys |-> {"1"},
     maxWait |-> 0,
     xs |-> {CoordLo(WINDOW_X), CoordLo(WINDOW_X) + CIRCLE_DIAMETER,
             CoordLo(WINDOW_X) + CIRCLE_DIAMETER + 1, CoordHi(WINDOW_X)},
     ys |-> {CoordLo(WINDOW_Y), CoordLo(WINDOW_Y) + CIRCLE_DIAMETER,
             CoordHi(WINDOW_Y)}]

InitPlace ==
    /\ pc = "fix_wait"
    /\ \/ env = FullRangeEnv /\ n_circles = 1
       \/ env = GridEnv /\ n_circles \in 1 .. MaxCircles
    /\ screen = "fixation"
    /\ now = BLOCK_START_DURATION
    /\ buffer = << >>
    /\ keys = <<[name |-> "1", screen |-> "instructions",
                 block |-> 0, trial |-> 0]>>
    /\ conditions = ConditionsFrom(n_circles)
    /\ block_i = 1
    /\ trial_i = 0
    /\ valid_positions = << >>
    /\ circle_i = 0
    /\ x = 0
    /\ y = 0
    /\ time_shown = 0
    /\ time_asked = 0
    /\ block_n = << >>
    /\ trial_n = << >>
    /\ correct_response = << >>
    /\ participant_response = << >>
    /\ was_correct = << >>
    /\ rt_list = << >>
    /\ report = NoReport

NextPlace ==
    \/ StartPlacement
    \/ TryPosition

SpecPlace == InitPlace /\ [][NextPlace]_vars

(***************************************************************************)
(* The placement loop in a window too small for two circles: the settings  *)
(* of lines 82, 83 and 121 with a window of SMALL_WINDOW pixels on lines   *)
(* 119-120.  The random source draws from the whole range of               *)
(* random.randint, whose points all lie within a diameter of one another.  *)
(***************************************************************************)
\* half the width of the small window: WINDOW_X/2 on lines 200-204 is a
\* whole number for a window of even width
SmallWindowHalf == 221

SMALL_WINDOW == 2 * SmallWindowHalf

SmallWindowEnv ==
    [keys |-> {"1"},
     maxWait |-> 0,
     xs |-> CoordLo(SMALL_WINDOW) .. CoordHi(SMALL_WINDOW),
     ys |-> CoordLo(SMALL_WINDOW) .. CoordHi(SMALL_WINDOW)]

InitSmallWindow ==
    /\ pc = "fix_wait"
    /\ env = SmallWindowEnv
    /\ n_circles \in 1 .. MaxCircles
    /\ screen = "fixation"
    /\ now = BLOCK_START_DURATION
    /\ buffer = << >>
    /\ keys = <<[name |-> "1", screen |-> "instructions",
                 block |-> 0, trial |-> 0]>>
    /\ conditions = ConditionsFrom(n_circles)
    /\ block_i = 1
    /\ trial_i = 0
    /\ valid_positions = << >>
    /\ circle_i = 0
    /\ x = 0
    /\ y = 0
    /\ time_shown = 0
    /\ time_asked = 0
    /\ block_n = << >>
    /\ trial_n = << >>
    /\ correct_response = << >>
    /\ participant_response = << >>
    /\ was_correct = << >>
    /\ rt_list = << >>
    /\ report = NoReport

NextSmallWindow ==
    \/ StartPlacement
    \/ TryPosition
    \/ ShowStimulus

SpecSmallWindow == InitSmallWindow /\ [][NextSmallWindow]_vars

(***************************************************************************)
(* The placement loop with the script's own settings and any of its ten    *)
(* conditions, entered where the loop has accepted the first circles of a  *)
(* layout.  The random source draws from the columns at the ends and the   *)
(* middle of the range, in two rows a diameter apart.                      *)
(***************************************************************************)
DefaultPlaceEnv ==
    [keys |-> {"1"},
     maxWait |-> 0,
     xs |-> {CoordLo(WINDOW_X), 0, CoordHi(WINDOW_X)},
     ys |-> {CoordHi(WINDOW_Y) - CIRCLE_DIAMETER, CoordHi(WINDOW_Y)}]

InitDefaultPlace ==
    /\ pc = "placing"
    /\ env = DefaultPlaceEnv
    /\ n_circles \in 1 .. DEFAULT_N_TRIALS
    /\ circle_i \in 0 .. n_circles - 1
    /\ valid_positions = Layout(circle_i)
    /\ x = IF circle_i = 0 THEN 0 ELSE Layout(circle_i)[circle_i][1]
    /\ y = IF circle_i = 0 THEN 0 ELSE Layout(circle_i)[circle_i][2]
    /\ screen = "fixation"
    /\ now = BLOCK_START_DURATION + FIX_DURATION
    /\ buffer = << >>
    /\ keys = <<[name |-> "1", screen |-> "instructions",
                 block |-> 0, trial |-> 0]>>
    /\ conditions = ConditionsFrom(n_circles)
    /\ block_i = 1
    /\ trial_i = 0
    /\ time_shown = 0
    /\ time_asked = 0
    /\ block_n = << >>
    /\ trial_n = << >>
    /\ correct_response = << >>
    /\ participant_response = << >>
    /\ was_correct = << >>
    /\ rt_list = << >>
    /\ report = NoReport

NextDefaultPlace == TryPosition

SpecDefaultPlace == InitDefaultPlace /\ [][NextDefaultPlace]_vars

(***************************************************************************)
(* The session under fairness.  Every statement of the script that can run *)
(* does run, and core.wait returns (lines 177, 190, 228); the placement    *)
(* loop draws, sooner or later, a candidate it can accept (lines 197-216); *)
(* the participant presses, sooner or later, a key that ends the wait of   *)
(* lines 163, 239 and 259.                                                 *)
(***************************************************************************)
\* a draw of the placement loop that is accepted
AcceptPosition == TryPosition /\ valid_positions' # valid_positions

\* a key press that ends the wait the script is in
QualifyingKeyPress ==
    /\ pc \in Blocking
    /\ KeyPress
    /\ pc = "wait_response" => buffer'[Len(buffer')].name \in ResponseKeyList

\* a statement of the script up to win.close() (line 262), other than a
\* draw of the placement loop; the script is at one statement at a time
ProgramStep ==
    \/ StartExperiment
    \/ ShowBlockStart
    \/ StartTrials
    \/ ShowFixation
    \/ StartPlacement
    \/ ShowStimulus
    \/ ShowPrompt
    \/ GetKeys
    \/ WaitKeysReturn
    \/ SaveTrial
    \/ NextIteration
    \/ ShowEnd
    \/ EndExperiment

Fairness ==
    /\ WF_vars(ProgramStep)
    /\ WF_vars(AcceptPosition)
    /\ WF_vars(QualifyingKeyPress)

SpecFair == Init /\ [][Next]_vars /\ Fairness


(***************************************************************************)
(* The properties.                                                         *)
(***************************************************************************)
\* the last entry of a list
Last(s) == s[Len(s)]

\* the answer a digit stands for: 0 means 10
Remap(d) == IF d = 0 THEN 10 ELSE d

\* the digit a digit key shows
DigitOf ==
    [k \in DigitKeys |->
        CASE k = "0" -> 0 [] k = "1" -> 1 [] k = "2" -> 2 [] k = "3" -> 3
          [] k = "4" -> 4 [] k = "5" -> 5 [] k = "6" -> 6 [] k = "7" -> 7
          [] k = "8" -> 8 [] k = "9" -> 9]

\* C1: when a trial is stored, the stored participant response is 10 if the
\* key taken as the answer is '0', and the digit's value if the key is one
\* of '1'..'9'.
C1_DigitRemap ==
    pc = "saved" =>
        Last(participant_response) = Remap(DigitOf[keys[1].name])

\* C2: when a trial is stored, was_correct is true exactly when the answer,
\* with 0 read as 10, equals the condition of the trial.
C2_CorrectAfterRemap ==
    pc = "saved" =>
        Last(was_correct)
            = (Remap(DigitOf[keys[1].name]) = Last(correct_response))

\* block b has run all its trials
BlockFinished(b) ==
    \/ b < block_i
    \/ pc \in {"end", "end_wait", "done", "reported"}
    \/ b = block_i /\ pc = "saved" /\ trial_i = N_TRIALS - 1

\* the records of block b
RecordsOf(b) == {i \in 1 .. Len(block_n) : block_n[i] = b}

\* C3: once block b has finished, the records of block b number N_TRIALS
\* and their correct_count values are exactly 1..N_TRIALS, each once; the
\* shuffled condition list is a permutation of 1..N_TRIALS in every state.
C3_BlockIsPermutation ==
    /\ Len(conditions) = N_TRIALS
    /\ {conditions[i] : i \in 1 .. N_TRIALS} = 1 .. N_TRIALS
    /\ \A b \in 1 .. N_BLOCKS :
          BlockFinished(b) =>
              /\ Cardinality(RecordsOf(b)) = N_TRIALS
              /\ {correct_response[i] : i \in RecordsOf(b)} = 1 .. N_TRIALS

\* the session has ended and the second block ran in another order than the
\* first
C3_Witness ==
    /\ pc = "done"
    /\ Len(correct_response) = N_BLOCKS * N_TRIALS
    /\ correct_response[1] # correct_response[N_TRIALS + 1]

\* the square of the distance of two positions
Dist2(p, q) ==
    (p[1] - q[1]) * (p[1] - q[1]) + (p[2] - q[2]) * (p[2] - q[2])

\* C4: when the placement loop of a trial with condition n has finished, it
\* has accepted exactly n positions, and any two of them are more than the
\* diameter apart: dx^2 + dy^2 > D^2.
C4_PlacedSeparated ==
    pc = "placed" =>
        /\ Len(valid_positions) = n_circles
        /\ \A i, j \in 1 .. Len(valid_positions) :
              i # j =>
                  Dist2(valid_positions[i], valid_positions[j])
                      > CIRCLE_DIAMETER * CIRCLE_DIAMETER

\* the loop has finished for the largest condition, with two circles as
\* close as the grid lets them be: one more than a diameter apart
C4_Witness ==
    /\ pc = "placed"
    /\ n_circles = MaxCircles
    /\ \E i, j \in 1 .. Len(valid_positions) :
          Dist2(valid_positions[i], valid_positions[j])
              = (CIRCLE_DIAMETER + 1) * (CIRCLE_DIAMETER + 1)

\* C5: with the 600x600 window, the padding of 200 and the diameter of 18,
\* every accepted position has x and y in [-82, 82], and the circle drawn
\* there (the centre plus and minus the radius of 9) lies within the window
\* inset by the padding.
C5_PositionsInFrame ==
    \A i \in 1 .. Len(valid_positions) :
        LET px == valid_positions[i][1]
            py == valid_positions[i][2]
        IN  /\ -82 <= px /\ px <= 82
            /\ -82 <= py /\ py <= 82
            /\ px - CIRCLE_RADIUS >= 0 - ((WINDOW_X \div 2) - WINDOW_PADDING)
            /\ px + CIRCLE_RADIUS <= (WINDOW_X \div 2) - WINDOW_PADDING
            /\ py - CIRCLE_RADIUS >= 0 - ((WINDOW_Y \div 2) - WINDOW_PADDING)
            /\ py + CIRCLE_RADIUS <= (WINDOW_Y \div 2) - WINDOW_PADDING

\* a circle has been accepted in a corner of the range of random.randint
C5_Witness ==
    /\ pc = "placed"
    /\ env = FullRangeEnv
    /\ valid_positions = <<<<CoordHi(WINDOW_X), CoordLo(WINDOW_Y)>>>>

\* C6: a key pressed while the circles are shown ends their display: the
\* question is then shown before CIRCLE_DURATION has passed.
C6_KeyEndsDisplay ==
    (pc = "prompt" /\ buffer # << >>) =>
        time_asked - time_shown < CIRCLE_DURATION

\* the first buffered key is a valid digit
BufferedAnswer == buffer # << >> /\ buffer[1].name \in DigitKeys

\* C7: at the prompt, a buffered key that is a valid digit is taken as the
\* answer with no wait; in every other case the trial waits, for as long as
\* it takes, until a valid digit key is pressed at the prompt, and that key
\* is the answer stored.
C7_ResponseSource ==
    [][/\ (pc = "prompt" /\ BufferedAnswer) =>
              /\ pc' = "got_response"
              /\ keys'[1] = buffer[1]
              /\ now' = now
       /\ (pc = "prompt" /\ ~BufferedAnswer) => pc' = "wait_response"
       /\ (pc = "wait_response" /\ pc' # "wait_response") =>
              /\ pc' = "got_response"
              /\ keys'[1].name \in DigitKeys
              /\ keys'[1].screen = "prompt"
              /\ \E i \in 1 .. Len(buffer) :
                    /\ buffer[i] = keys'[1]
                    /\ \A j \in 1 .. i - 1 : buffer[j].name \notin DigitKeys
       /\ (pc = "wait_response" /\ pc' = "wait_response") =>
              UNCHANGED <<results, keys>>
       /\ (pc = "got_response" /\ pc' # "got_response") =>
              /\ pc' = "saved"
              /\ Last(participant_response') = DigitOf[keys[1].name]
      ]_vars

\* an answer has come from the wait: time has passed since the question,
\* and a key that is no digit, pressed during the wait, is still buffered
C7_Witness ==
    /\ pc = "got_response"
    /\ keys[1].screen = "prompt"
    /\ now > time_asked
    /\ buffer # << >>

\* a key pressed since the circles of the current trial were shown
Fresh(e) ==
    /\ e.screen \in {"stimulus", "prompt"}
    /\ e.block = block_i
    /\ e.trial = trial_i

Phase(p) ==
    CASE p \in {"fix_wait", "placing", "placed"} -> "FixationDisplay"
      [] p = "stim_wait" -> "StimulusDisplay"
      [] p \in {"prompt", "wait_response"} -> "ResponsePrompt"
      [] p = "got_response" -> "ResponseCaptured"
      [] OTHER -> "None"

PhaseOrder ==
    {<<"None", "FixationDisplay">>,
     <<"FixationDisplay", "StimulusDisplay">>,
     <<"StimulusDisplay", "ResponsePrompt">>,
     <<"ResponsePrompt", "ResponseCaptured">>,
     <<"ResponseCaptured", "None">>}

\* C9: a trial goes through FixationDisplay, StimulusDisplay, ResponsePrompt
\* and ResponseCaptured in this order, with no step back and none left out;
\* leaving ResponseCaptured stores exactly one record, and no other step
\* stores one.
C9_PhaseOrder ==
    [][/\ Phase(pc') # Phase(pc) => <<Phase(pc), Phase(pc')>> \in PhaseOrder
       /\ Phase(pc) # "None" => (block_i' = block_i /\ trial_i' = trial_i)
       /\ Len(rt_list') =
              IF Phase(pc) = "ResponseCaptured" /\ Phase(pc') = "None"
                 THEN Len(rt_list) + 1
                 ELSE Len(rt_list)
      ]_vars

\* the second trial is about to start, the first one stored
C9_Witness ==
    /\ pc = "trial"
    /\ trial_i = 1
    /\ Len(rt_list) = 1

\* C10: every stored response time is at least 0, whether the answer was
\* buffered while the circles were shown or came from the wait.
C10_ResponseTimeNonNegative ==
    \A i \in 1 .. Len(rt_list) : rt_list[i] >= 0

\* a trial is stored whose answer came from the wait, after some time
C10_Witness ==
    /\ pc = "saved"
    /\ keys[1].screen = "prompt"
    /\ Last(rt_list) > 0

\* C11: the response time stored for a trial is the time from the moment the
\* circles were shown to the moment the participant entered the guess (here
\* for a guess that is the one key pressed at the prompt).
C11_FromStimulusOnset ==
    (pc = "saved" /\ Len(keys) = 1 /\ keys[1].screen = "prompt"
        /\ buffer = << >>) =>
        Last(rt_list) = now - time_shown

\* C12 as stated: every record carries a block number in 1..N_BLOCKS, the
\* block numbers never fall along the records, and the trial index of every
\* record is one more than that of the record before it.
C12_TrialIndexAlwaysIncrements ==
    \A i \in 1 .. Len(block_n) :
        /\ block_n[i] \in 1 .. N_BLOCKS
        /\ i > 1 => block_n[i - 1] <= block_n[i]
        /\ i > 1 => trial_n[i] = trial_n[i - 1] + 1

\* C12 as amended: every record carries the block number, counted from 1, of
\* the block it ran in (1..N_BLOCKS, never falling along the records), and
\* the place of its trial within that block counted from 0: the trial index
\* grows by one from a record to the next within a block and starts again
\* at 0 with the first record of every block.
C12_BlockAndTrialTags ==
    /\ Len(trial_n) = Len(block_n)
    /\ \A i \in 1 .. Len(block_n) :
          /\ block_n[i] = ((i - 1) \div N_TRIALS) + 1
          /\ block_n[i] \in 1 .. N_BLOCKS
          /\ i > 1 => block_n[i - 1] <= block_n[i]
          /\ trial_n[i] = (i - 1) % N_TRIALS
          /\ (i > 1 /\ block_n[i] = block_n[i - 1]) =>
                 trial_n[i] = trial_n[i - 1] + 1
          /\ (i > 1 /\ block_n[i] # block_n[i - 1]) => trial_n[i] = 0

\* the first trial of the second block is stored
C12_Witness ==
    /\ pc = "saved"
    /\ Len(block_n) = N_TRIALS + 1
    /\ Last(block_n) = 2
    /\ Last(trial_n) = 0

\* C13: the end message is on the screen only when all N_BLOCKS x N_TRIALS
\* trials are stored, and the results are read only after a key pressed at
\* the end message has closed the window: never during a block or a trial,
\* and never with fewer than N_BLOCKS x N_TRIALS records.
C13_ResultsReadAtTheEnd ==
    /\ screen \in {"end", "closed"} =>
          /\ Len(block_n) = N_BLOCKS * N_TRIALS
          /\ Len(rt_list) = N_BLOCKS * N_TRIALS
    /\ report.made =>
          /\ pc = "reported"
          /\ screen = "closed"
          /\ keys # << >>
          /\ \A i \in 1 .. Len(keys) : keys[i].screen = "end"
          /\ Len(report.rows) = N_BLOCKS * N_TRIALS
          /\ Len(block_n) = N_BLOCKS * N_TRIALS

\* the results of a whole session have been read
C13_Witness ==
    /\ pc = "reported"
    /\ report.made
    /\ Len(report.rows) = N_BLOCKS * N_TRIALS
    /\ keys[1].screen = "end"

\* C14: no key other than a digit is ever stored as an answer.  A key that
\* is not a digit, buffered first or pressed while the script waits for the
\* answer, leaves the trial at the question with no record added, and
\* int(keys[0]) is only ever applied to a digit key.
C14_NonDigitNeverRecorded ==
    [][/\ (pc = "prompt" /\ buffer # << >>
              /\ buffer[1].name \notin DigitKeys) =>
              /\ pc' = "wait_response"
              /\ UNCHANGED results
       /\ (pc = "wait_response"
              /\ \A i \in 1 .. Len(buffer) :
                     buffer[i].name \notin DigitKeys) =>
              /\ pc' = "wait_response"
              /\ UNCHANGED results
       /\ pc' = "got_response" =>
              /\ keys' # << >>
              /\ keys'[1].name \in DigitKeys
       /\ results' # results =>
              /\ keys[1].name \in DigitKeys
              /\ Last(participant_response') = DigitOf[keys[1].name]
              /\ Last(participant_response') \in 0 .. 9
      ]_vars

\* an answer is stored while a key that is no digit, pressed at the
\* question, is left in the buffer
C14_Witness ==
    /\ pc = "saved"
    /\ buffer # << >>
    /\ buffer[1].name \notin DigitKeys
    /\ buffer[1].screen = "prompt"
    /\ Last(participant_response) \in 0 .. 9

\* C15: in the results read at the end, the accuracy of a block is the
\* number of its records that are correct over the number of its records,
\* the overall accuracy is the same over all records, and every block
\* number and every number of circles found in the records is a key of its
\* grouping exactly once (and the groupings have no other key).
C15_AccuracyRatios ==
    report.made =>
        LET All == 1 .. Len(block_n)
            Right(I) == Cardinality({i \in I : was_correct[i]})
            WithKey(out, k) == {j \in 1 .. Len(out) : out[j].key = k}
        IN  /\ report.overall_accuracy = <<Right(All), Cardinality(All)>>
            /\ \A i \in All :
                  /\ Cardinality(WithKey(report.block_accuracy,
                                         block_n[i])) = 1
                  /\ Cardinality(WithKey(report.circles_accuracy,
                                         correct_response[i])) = 1
            /\ \A j \in 1 .. Len(report.block_accuracy) :
                  LET b == report.block_accuracy[j].key
                  IN  /\ RecordsOf(b) # {}
                      /\ report.block_accuracy[j].mean =
                             <<Right(RecordsOf(b)), Cardinality(RecordsOf(b))>>
            /\ \A j \in 1 .. Len(report.circles_accuracy) :
                  \E i \in All :
                      correct_response[i] = report.circles_accuracy[j].key

\* the results are read of a session with a block that holds a correct and
\* an incorrect answer
C15_Witness ==
    /\ report.made
    /\ \E i, j \in 1 .. Len(block_n) :
          /\ block_n[i] = block_n[j]
          /\ was_correct[i]
          /\ ~was_correct[j]

\* no candidate of the range the random source draws from is clear of all
\* the accepted positions
Stuck ==
    /\ pc = "placing"
    /\ \A cx \in env.xs, cy \in env.ys : ~IsValid(cx, cy, valid_positions)

\* C16: where no candidate of the range is farther than a diameter from all
\* the accepted positions, the placement loop goes on for ever: every draw
\* is rejected, the loop stays as it is, the circles are never shown and no
\* record is added.
C16_InfeasibleLoopsForever ==
    [][Stuck =>
          /\ Stuck'
          /\ ~IsValid(x', y', valid_positions)
          /\ Len(valid_positions') < n_circles
          /\ screen' # "stimulus"
          /\ UNCHANGED <<valid_positions, circle_i, screen, results>>
      ]_vars

\* a second circle cannot be placed and a draw has been rejected
C16_Witness ==
    /\ Stuck
    /\ Len(valid_positions) = 1
    /\ n_circles > 1
    /\ <<x, y>> # valid_positions[1]

\* the trials stored so far, as the position of the script tells it
TrialsCompleted ==
    CASE pc = "instructions" -> 0
      [] pc \in {"block", "block_wait"} -> (block_i - 1) * N_TRIALS
      [] pc = "saved" -> (block_i - 1) * N_TRIALS + trial_i + 1
      [] pc \in {"end", "end_wait", "done", "reported"} ->
             N_BLOCKS * N_TRIALS
      [] OTHER -> (block_i - 1) * N_TRIALS + trial_i

\* the six lists have the length of the trials stored so far
InStep ==
    /\ Len(block_n) = TrialsCompleted
    /\ Len(trial_n) = TrialsCompleted
    /\ Len(correct_response) = TrialsCompleted
    /\ Len(participant_response) = TrialsCompleted
    /\ Len(was_correct) = TrialsCompleted
    /\ Len(rt_list) = TrialsCompleted

\* list new is list old, or list old with one entry added at the end
Extends(old, new) ==
    \/ new = old
    \/ Len(new) = Len(old) + 1 /\ SubSeq(new, 1, Len(old)) = old

\* C17: the six lists only grow at the end and stay in step: a step of the
\* script changes none of them or, at the end of a trial, adds one entry to
\* each and changes no earlier entry; in every state each of the six has as
\* many entries as trials have been completed.
C17_AppendOnlyInStep ==
    [][/\ InStep
       /\ InStep'
       /\ Extends(block_n, block_n')
       /\ Extends(trial_n, trial_n')
       /\ Extends(correct_response, correct_response')
       /\ Extends(participant_response, participant_response')
       /\ Extends(was_correct, was_correct')
       /\ Extends(rt_list, rt_list')
       /\ IF pc = "got_response"
             THEN /\ Len(block_n') = Len(block_n) + 1
                  /\ Len(trial_n') = Len(trial_n) + 1
                  /\ Len(correct_response') = Len(correct_response) + 1
                  /\ Len(participant_response') =
                         Len(participant_response) + 1
                  /\ Len(was_correct') = Len(was_correct) + 1
                  /\ Len(rt_list') = Len(rt_list) + 1
             ELSE UNCHANGED results
      ]_vars

\* the last trial of the first block is stored
C17_Witness ==
    /\ pc = "saved"
    /\ block_i = 1
    /\ Len(block_n) = N_TRIALS
    /\ Len(rt_list) = N_TRIALS

\* the first key of keyList in a buffer that holds one
FirstOfKeyList(buf) ==
    buf[CHOOSE i \in 1 .. Len(buf) :
            /\ buf[i].name \in DigitKeys
            /\ \A j \in 1 .. i - 1 : buf[j].name \notin DigitKeys]

\* C18: of several keys pressed while the circles are shown only the first
\* is looked at.  A first key that is a digit is the answer whatever was
\* pressed after it; after a first key that is no digit all the buffered
\* keys are dropped, digits among them, and the answer is the first digit
\* pressed once the script waits at the question.
C18_OnlyFirstBufferedKey ==
    [][/\ (pc = "prompt" /\ Len(buffer) >= 2) =>
              IF buffer[1].name \in DigitKeys
                 THEN /\ pc' = "got_response"
                      /\ keys'[1] = buffer[1]
                 ELSE /\ pc' = "wait_response"
                      /\ keys' = << >>
                      /\ buffer' = << >>
       /\ (pc = "wait_response" /\ pc' = "got_response") =>
              /\ keys'[1] = FirstOfKeyList(buffer)
              /\ keys'[1].screen = "prompt"
       /\ (pc = "got_response" /\ pc' = "saved") =>
              Last(participant_response') = DigitOf[keys[1].name]
      ]_vars

\* two different digits were pressed while the circles were shown, and the
\* answer stored is the first
C18_Witness ==
    /\ pc = "saved"
    /\ Len(keys) >= 2
    /\ keys[1].screen = "stimulus"
    /\ keys[2].screen = "stimulus"
    /\ keys[2].name \in DigitKeys
    /\ keys[1].name # keys[2].name
    /\ Last(participant_response) = DigitOf[keys[1].name]

\* the points of the integer grid a circle keeps others from: those within
\* a diameter of its centre
DiscPoints ==
    Cardinality({p \in (0 - CIRCLE_DIAMETER .. CIRCLE_DIAMETER)
                       \X (0 - CIRCLE_DIAMETER .. CIRCLE_DIAMETER) :
                    Overlaps(p[1], p[2], 0, 0)})

\* C19: with the settings of the script the placement loop cannot get
\* stuck: while it still has a circle to place (at most 9 of 10 are placed)
\* some point of the range of random.randint is farther than a diameter
\* from every accepted position; the accepted circles cannot even cover the
\* range, whatever their positions.
C19_DefaultsNeverStuck ==
    /\ (DEFAULT_N_TRIALS - 1) * DiscPoints
          < Cardinality(XRange) * Cardinality(YRange)
    /\ pc = "placing" =>
          /\ n_circles <= DEFAULT_N_TRIALS
          /\ Len(valid_positions) < n_circles
          /\ \E cx \in XRange, cy \in YRange :
                IsValid(cx, cy, valid_positions)

\* the loop has accepted a draw and has the last of ten circles to place
C19_Witness ==
    /\ pc = "placing"
    /\ n_circles = DEFAULT_N_TRIALS
    /\ Len(valid_positions) = DEFAULT_N_TRIALS - 1
    /\ <<x, y>> = Last(valid_positions)
    /\ y >= CoordHi(WINDOW_Y) - CIRCLE_DIAMETER

\* C20: under fairness the session comes to its end with all N_BLOCKS
\* blocks run and exactly N_BLOCKS x N_TRIALS records stored.
C20_SessionCompletes ==
    <>(/\ pc \in {"done", "reported"}
       /\ block_i = N_BLOCKS
       /\ Len(block_n) = N_BLOCKS * N_TRIALS
       /\ Len(rt_list) = N_BLOCKS * N_TRIALS)

\* the window is closed after the last block
C20_Witness ==
    /\ pc = "done"
    /\ screen = "closed"
    /\ block_i = N_BLOCKS
    /\ Len(block_n) = N_BLOCKS * N_TRIALS

=============================================================================
